---------------------------- MODULE Spec2Model ----------------------------
(***************************************************************************)
(* A model of nordea-parser (src/main.py): the backward scan of            *)
(* parse_amount, parse_date_description, parse_payment_line, and the two   *)
(* record generators parse_creditcard_records and parse_debitcard.         *)
(*                                                                         *)
(* A Python str is a sequence of one-character strings.  Python indices    *)
(* are 0-based and kept 0-based in idx; TLA+ sequences are 1-based.        *)
(***************************************************************************)
EXTENDS Integers, Sequences, FiniteSets, TLC

(***************************************************************************)
(* Bounds of the model.                                                    *)
(***************************************************************************)
MaxPieces == 5

\* the most lines of a credit-card file
MaxFileLines == 3

\* the most rows of a debit-card table
MaxRows == 2

(***************************************************************************)
(* Characters.                                                             *)
(***************************************************************************)
Digits == {"0", "1", "2", "3", "4", "5", "6", "7", "8", "9"}

Whitespace == {" ", "\t", "\n", "\r"}

IsDigit(ch) == ch \in Digits

\* Python's None, and the value of a local not yet assigned
None == <<"None">>

(***************************************************************************)
(* str helpers, computed as Python computes them.                          *)
(***************************************************************************)
Reverse(s) == [i \in 1..Len(s) |-> s[Len(s) + 1 - i]]

RECURSIVE Flatten(_)
Flatten(ss) == IF ss = <<>> THEN <<>> ELSE Head(ss) \o Flatten(Tail(ss))

\* sep.join(ss)
RECURSIVE Join(_, _)
Join(ss, sep) ==
    IF ss = <<>> THEN <<>>
    ELSE IF Len(ss) = 1 THEN ss[1]
    ELSE ss[1] \o sep \o Join(Tail(ss), sep)

\* s.split(c) for a one-character separator: consecutive separators give
\* empty strings, and the result always has at least one element.
RECURSIVE SplitOn(_, _)
SplitOn(s, c) ==
    IF \A i \in DOMAIN s : s[i] # c THEN <<s>>
    ELSE LET p == CHOOSE i \in DOMAIN s : s[i] = c /\ \A j \in 1..(i - 1) : s[j] # c
         IN  <<SubSeq(s, 1, p - 1)>> \o SplitOn(SubSeq(s, p + 1, Len(s)), c)

\* the number of leading whitespace characters of s
LeadWs(s) ==
    IF \A i \in DOMAIN s : s[i] \in Whitespace THEN Len(s)
    ELSE (CHOOSE i \in DOMAIN s : s[i] \notin Whitespace
                                  /\ \A j \in 1..(i - 1) : s[j] \in Whitespace) - 1

\* s.strip()
Strip(s) ==
    IF \A i \in DOMAIN s : s[i] \in Whitespace THEN <<>>
    ELSE LET last == CHOOSE i \in DOMAIN s : s[i] \notin Whitespace
                         /\ \A j \in (i + 1)..Len(s) : s[j] \in Whitespace
         IN  SubSeq(s, LeadWs(s) + 1, last)

\* a slice bound as Python normalises it: negative counts from the end
SliceBound(s, i) ==
    IF i < 0 THEN (IF Len(s) + i < 0 THEN 0 ELSE Len(s) + i)
    ELSE IF i > Len(s) THEN Len(s) ELSE i

\* s[:i]
SliceTo(s, i) == SubSeq(s, 1, SliceBound(s, i))

\* s[i:]
SliceFrom(s, i) == SubSeq(s, SliceBound(s, i) + 1, Len(s))

\* s.rfind(sub): the highest 0-based index where sub occurs in s, else -1
RFind(s, sub) ==
    LET hits == {i \in 0..(Len(s) - Len(sub)) : SubSeq(s, i + 1, i + Len(sub)) = sub}
    IN  IF hits = {} THEN -1 ELSE CHOOSE i \in hits : \A j \in hits : j <= i

(***************************************************************************)
(* decimal.Decimal(text) for the texts this program builds: an optional    *)
(* sign, digits, at most one point, digits; surrounding whitespace is      *)
(* ignored.  A text of another shape, or without any digit, raises         *)
(* InvalidOperation.  The value is kept canonical (no leading zeros, no    *)
(* trailing fraction zeros, no signed zero), so that equal Decimals are    *)
(* equal values of the model.                                              *)
(***************************************************************************)
RECURSIVE DropLeadingZeros(_)
DropLeadingZeros(s) ==
    IF s # <<>> /\ s[1] = "0" THEN DropLeadingZeros(Tail(s)) ELSE s

DropTrailingZeros(s) == Reverse(DropLeadingZeros(Reverse(s)))

AllDigits(s) == \A i \in DOMAIN s : IsDigit(s[i])

\* the text without its sign, split at the decimal point
DecimalParts(text) ==
    LET t == Strip(text)
    IN  SplitOn(IF t # <<>> /\ t[1] \in {"-", "+"} THEN Tail(t) ELSE t, ".")

\* Decimal(text) does not raise
IsDecimalText(text) ==
    LET prt == DecimalParts(text)
    IN  /\ Len(prt) <= 2
        /\ \A k \in DOMAIN prt : AllDigits(prt[k])
        /\ ~(\A k \in DOMAIN prt : prt[k] = <<>>)

\* the value of Decimal(text), for a text that does not raise
DecimalOf(text) ==
    LET t   == Strip(text)
        prt == DecimalParts(text)
        i   == DropLeadingZeros(prt[1])
        f   == DropTrailingZeros(IF Len(prt) > 1 THEN prt[2] ELSE <<>>)
    IN  [neg |-> t[1] = "-" /\ (i # <<>> \/ f # <<>>), int |-> i, frac |-> f]

(***************************************************************************)
(* parse_amount: the locals of the scan as one record.  brk names the      *)
(* exit the loop took ("none" while it runs).                              *)
(***************************************************************************)
ScanInit ==
    [stack |-> <<>>, groups |-> <<>>, decimal |-> <<>>, sign |-> <<>>,
     has_space |-> FALSE, parse_done |-> FALSE, brk |-> "none"]

\* groups.append("".join(reversed(stack))); stack.clear()
FlushStack(st) ==
    [st EXCEPT !.groups = Append(st.groups, Reverse(st.stack)), !.stack = <<>>]

\* if ch.isdigit(): stack.append(ch)
OnDigit(st, ch) == [st EXCEPT !.stack = Append(st.stack, ch)]

\* elif ch == ",": decimal = "".join(reversed(stack)); stack.clear()
OnComma(st) == [st EXCEPT !.decimal = Reverse(st.stack), !.stack = <<>>]

\* mutant: a "-" is the sign only when digits are held
OnMinus_NeedsDigits(st) ==
    IF 0 < Len(st.stack) /\ Len(st.stack) <= 3
    THEN [FlushStack(st) EXCEPT !.sign = <<"-">>, !.parse_done = TRUE, !.brk = "minus"]
    ELSE st

\* elif ch == "-": the sign when at most 3 digits are held, else no branch
\* is taken and the loop goes on with the stack as it is
OnMinus(st) ==
    IF Len(st.stack) <= 3
    THEN [FlushStack(st) EXCEPT !.sign = <<"-">>, !.parse_done = TRUE, !.brk = "minus"]
    ELSE st

\* mutant: a run of more than 3 digits is never taken as a group
OnSpace_NoLongRun(st) ==
    IF Len(st.stack) = 3
    THEN [FlushStack(st) EXCEPT !.has_space = TRUE]
    ELSE IF 0 < Len(st.stack) /\ Len(st.stack) < 3
    THEN [FlushStack(st) EXCEPT !.parse_done = TRUE, !.brk = "short"]
    ELSE IF Len(st.stack) > 3
    THEN [st EXCEPT !.parse_done = TRUE, !.brk = "long"]
    ELSE [st EXCEPT !.has_space = TRUE]

\* mutant: a run of more than 3 digits is a group whatever was seen before
OnSpace_LongRunFlushed(st) ==
    IF Len(st.stack) = 3
    THEN [FlushStack(st) EXCEPT !.has_space = TRUE]
    ELSE IF 0 < Len(st.stack) /\ Len(st.stack) < 3
    THEN [FlushStack(st) EXCEPT !.parse_done = TRUE, !.brk = "short"]
    ELSE IF Len(st.stack) > 3
    THEN [FlushStack(st) EXCEPT !.parse_done = TRUE, !.brk = "long"]
    ELSE [st EXCEPT !.has_space = TRUE]

\* mutant: a space after 1 or 2 digits separates groups as well
OnSpace_AnyGroup(st) ==
    IF 0 < Len(st.stack) /\ Len(st.stack) <= 3
    THEN [FlushStack(st) EXCEPT !.has_space = TRUE]
    ELSE IF Len(st.stack) > 3
    THEN [(IF ~st.has_space THEN FlushStack(st) ELSE st)
             EXCEPT !.parse_done = TRUE, !.brk = "long"]
    ELSE [st EXCEPT !.has_space = TRUE]

\* elif ch == " "
OnSpace(st) ==
    IF Len(st.stack) = 3
    THEN [FlushStack(st) EXCEPT !.has_space = TRUE]
    ELSE IF 0 < Len(st.stack) /\ Len(st.stack) < 3
    THEN [FlushStack(st) EXCEPT !.parse_done = TRUE, !.brk = "short"]
    ELSE IF Len(st.stack) > 3
    THEN [(IF ~st.has_space THEN FlushStack(st) ELSE st)
             EXCEPT !.parse_done = TRUE, !.brk = "long"]
    ELSE [st EXCEPT !.has_space = TRUE]

\* mutant: a character of no kind is passed over
OnOther_Skipped(st) == st

\* else: break
OnOther(st) == [st EXCEPT !.brk = "other"]

\* one pass of the loop body on character ch
ScanChar(st, ch) ==
    IF IsDigit(ch) THEN OnDigit(st, ch)
    ELSE IF ch = "," THEN OnComma(st)
    ELSE IF ch = "-" THEN OnMinus(st)
    ELSE IF ch = " " THEN OnSpace(st)
    ELSE OnOther(st)

\* the loop over reversed(line.strip()), from character p down to the first
RECURSIVE ScanFrom(_, _, _)
ScanFrom(text, p, st) ==
    IF p = 0 THEN [st EXCEPT !.brk = "end"]
    ELSE LET n == ScanChar(st, text[p])
         IN  IF n.brk # "none" THEN n ELSE ScanFrom(text, p - 1, n)

\* mutant: nothing is flushed after the loop
FlushRest_Never(st) == st

\* if not parse_done and len(stack) > 0: flush
FlushRest(st) ==
    IF ~st.parse_done /\ Len(st.stack) > 0 THEN FlushStack(st) ELSE st

\* mutant: the groups joined in the order they were met
IntegerOf_NotReversed(st) == st.sign \o Flatten(st.groups)

\* integer = sign + "".join(reversed(groups))
IntegerOf(st) == st.sign \o Flatten(Reverse(st.groups))

\* full_number = sign + " ".join(reversed(groups)) + ("," + decimal if decimal else "")
FullNumberOf(st) ==
    st.sign \o Join(Reverse(st.groups), <<" ">>)
            \o (IF st.decimal # <<>> THEN <<",">> \o st.decimal ELSE <<>>)

\* mutant: the point is written only when decimals follow
AmountOf_NoBareDot(st) ==
    IntegerOf(st) \o (IF st.decimal # <<>> THEN <<".">> \o st.decimal ELSE <<>>)

\* mutant: an empty integer part is written as "0"
AmountOf_ZeroFilled(st) ==
    (IF Flatten(st.groups) = <<>> THEN st.sign \o <<"0">> ELSE IntegerOf(st))
        \o <<".">> \o st.decimal

\* f"{integer}.{decimal}"
AmountOf(st) == IntegerOf(st) \o <<".">> \o st.decimal

\* mutant: line.find, the lowest index where full_number occurs
LocateAmount_First(ln, st) ==
    LET sub  == FullNumberOf(st)
        hits == {i \in 0..(Len(ln) - Len(sub)) : SubSeq(ln, i + 1, i + Len(sub)) = sub}
    IN  IF hits = {} THEN -1 ELSE CHOOSE i \in hits : \A j \in hits : i <= j

\* idx = line.rfind(full_number)
LocateAmount(ln, st) == RFind(ln, FullNumberOf(st))

\* parse_amount(line) as a function of the line
ParseAmount(ln) ==
    LET t  == Strip(ln)
        st == FlushRest(ScanFrom(t, Len(t), ScanInit))
    IN  [amount |-> AmountOf(st), idx |-> LocateAmount(ln, st)]

(***************************************************************************)
(* parse_date_description.  dateparser.parse is an external function: the  *)
(* model keeps the text handed to it and lets it answer a date or None.    *)
(***************************************************************************)
\* ss[a:b] of a list, for 0 <= a <= b
ListSlice(ss, a, b) == SubSeq(ss, a + 1, IF b > Len(ss) THEN Len(ss) ELSE b)

\* " ".join(parts[0:3]), the text given to dateparser.parse
DateArgOf(ln) ==
    LET parts == SplitOn(ln, " ")
    IN  Join(ListSlice(parts, 0, 3), <<" ">>)

\* " ".join(parts[3:]).strip()
DescriptionOf(ln) ==
    LET parts == SplitOn(ln, " ")
    IN  Strip(Join(ListSlice(parts, 3, Len(parts)), <<" ">>))

DateOf(arg) == <<"date", arg>>

(***************************************************************************)
(* The lines the model feeds to parse_payment_line: nothing, a date head   *)
(* or a date head with a description ending in a run of four digits,       *)
(* followed by every text made of at most MaxPieces pieces, a piece        *)
(* being one character of Alphabet or a three-digit group.                 *)
(***************************************************************************)
Alphabet == {"0", "1", ",", " ", "-", "a"}

Pieces == {<<c>> : c \in Alphabet} \cup {<<"1", "0", "0">>}

DateHead == <<"1", " ", "m", " ", "2", "0", "2", "5", " ">>

\* a date, a description and a run of four digits
RunHead == DateHead \o <<"a", " ", "1", "1", "0", "0", " ">>

Heads == {<<>>, DateHead, RunHead}

Tails == {Flatten(ps) : ps \in UNION {[1..n -> Pieces] : n \in 0..MaxPieces}}

Lines == {h \o t : h \in Heads, t \in Tails}

(***************************************************************************)
(* State: the argument and the locals of parse_payment_line and of the     *)
(* parse_amount call it makes.                                             *)
(***************************************************************************)
VARIABLES
    line,         \* the line given to parse_payment_line / parse_amount
    pos,          \* 1-based place in line.strip() of the character the loop is at
    stack, groups, decimal, sign, has_space, parse_done,
    brk,          \* the exit the loop took
    full_number, amount, idx,
    date_arg,     \* the text handed to dateparser.parse
    date, description,
    result,       \* what parse_payment_line returned
    pc

\* parse_creditcard_records
VARIABLES
    file_lines,   \* the lines of the file, as f.readlines() gives them
    f,            \* the file handle: "unopened", "open" or "closed"
    lines,        \* the lines that are not blank
    line_no,      \* how many of them the loop has taken
    records,      \* the records yielded so far
    gen           \* the generator: "created", "running", "done" or "raised"

\* parse_debitcard
VARIABLES
    parsable,     \* the date texts dateparser.parse turns into a date
    df,           \* the rows of the table
    row_no,       \* how many rows the loop has taken
    debit_records,\* the records yielded so far
    debit_gen     \* the generator: "running", "done" or "raised"

lineVars == <<line, pos, stack, groups, decimal, sign, has_space, parse_done, brk,
              full_number, amount, idx, date_arg, date, description, result, pc>>

fileVars == <<file_lines, f, lines, line_no, records, gen>>

debitVars == <<parsable, df, row_no, debit_records, debit_gen>>

vars == <<lineVars, fileVars, debitVars>>

\* no line is being parsed
LineIdle ==
    /\ line = <<>> /\ pos = 0
    /\ stack = <<>> /\ groups = <<>> /\ decimal = <<>> /\ sign = <<>>
    /\ has_space = FALSE /\ parse_done = FALSE /\ brk = "none"
    /\ full_number = None /\ amount = None /\ idx = None
    /\ date_arg = None /\ date = None /\ description = None
    /\ result = None /\ pc = "idle"

\* parse_creditcard_records has not been called
FileIdle ==
    /\ file_lines = <<>> /\ f = "unopened" /\ lines = None
    /\ line_no = 0 /\ records = <<>> /\ gen = "idle"

\* parse_debitcard has not been called
DebitIdle ==
    /\ parsable = {} /\ df = <<>> /\ row_no = 0
    /\ debit_records = <<>> /\ debit_gen = "idle"

Text == Strip(line)

Scan ==
    [stack |-> stack, groups |-> groups, decimal |-> decimal, sign |-> sign,
     has_space |-> has_space, parse_done |-> parse_done, brk |-> brk]

SetScan(n) ==
    /\ stack' = n.stack
    /\ groups' = n.groups
    /\ decimal' = n.decimal
    /\ sign' = n.sign
    /\ has_space' = n.has_space
    /\ parse_done' = n.parse_done
    /\ brk' = n.brk

\* the loop goes on to the next character, or leaves at a break
Advance(n) ==
    /\ SetScan(n)
    /\ IF n.brk # "none"
       THEN pos' = pos /\ pc' = "after_loop"
       ELSE pos' = pos - 1 /\ pc' = "scan"
    /\ UNCHANGED <<line, full_number, amount, idx, date_arg, date, description, result>>
    /\ UNCHANGED <<fileVars, debitVars>>

Init ==
    /\ line \in Lines
    /\ pos = Len(Strip(line))
    /\ stack = <<>>
    /\ groups = <<>>
    /\ decimal = <<>>
    /\ sign = <<>>
    /\ has_space = FALSE
    /\ parse_done = FALSE
    /\ brk = "none"
    /\ full_number = None
    /\ amount = None
    /\ idx = None
    /\ date_arg = None
    /\ date = None
    /\ description = None
    /\ result = None
    /\ pc = "scan"
    /\ FileIdle /\ DebitIdle

ScanDigit ==
    /\ pc = "scan" /\ pos > 0 /\ IsDigit(Text[pos])
    /\ Advance(OnDigit(Scan, Text[pos]))

ScanComma ==
    /\ pc = "scan" /\ pos > 0 /\ Text[pos] = ","
    /\ Advance(OnComma(Scan))

ScanMinus ==
    /\ pc = "scan" /\ pos > 0 /\ Text[pos] = "-"
    /\ Advance(OnMinus(Scan))

ScanSpace ==
    /\ pc = "scan" /\ pos > 0 /\ Text[pos] = " "
    /\ Advance(OnSpace(Scan))

ScanOther ==
    /\ pc = "scan" /\ pos > 0
    /\ ~IsDigit(Text[pos]) /\ Text[pos] \notin {",", "-", " "}
    /\ Advance(OnOther(Scan))

\* the loop ran off the start of the stripped line
ScanEnd ==
    /\ pc = "scan" /\ pos = 0
    /\ brk' = "end"
    /\ pc' = "after_loop"
    /\ UNCHANGED <<line, pos, stack, groups, decimal, sign, has_space, parse_done,
                   full_number, amount, idx, date_arg, date, description, result>>
    /\ UNCHANGED <<fileVars, debitVars>>

\* lines 57-65: the last flush, the two texts, the offset; parse_amount returns
AfterLoop ==
    /\ pc = "after_loop"
    /\ LET n == FlushRest(Scan)
       IN  /\ SetScan(n)
           /\ full_number' = FullNumberOf(n)
           /\ amount' = AmountOf(n)
           /\ idx' = LocateAmount(line, n)
    /\ pc' = "amount_done"
    /\ UNCHANGED <<line, pos, date_arg, date, description, result>>
    /\ UNCHANGED <<fileVars, debitVars>>

\* line 82: parse_date_description(line[:idx].strip())
ParseDateDescription ==
    /\ pc = "amount_done"
    /\ LET prefix == Strip(SliceTo(line, idx))
       IN  /\ date_arg' = DateArgOf(prefix)
           /\ description' = DescriptionOf(prefix)
           /\ date' \in {None, DateOf(DateArgOf(prefix))}
    /\ pc' = "to_decimal"
    /\ UNCHANGED <<line, pos, stack, groups, decimal, sign, has_space, parse_done, brk,
                   full_number, amount, idx, result>>
    /\ UNCHANGED <<fileVars, debitVars>>

\* line 83: return date, description, Decimal(amount)
ReturnRecord ==
    /\ pc = "to_decimal"
    /\ IsDecimalText(amount)
    /\ result' = [date |-> date, description |-> description, amount |-> DecimalOf(amount)]
    /\ pc' = "returned"
    /\ UNCHANGED <<line, pos, stack, groups, decimal, sign, has_space, parse_done, brk,
                   full_number, amount, idx, date_arg, date, description>>
    /\ UNCHANGED <<fileVars, debitVars>>

\* line 83: Decimal(amount) raises, and so does parse_payment_line
RaiseInvalid ==
    /\ pc = "to_decimal"
    /\ ~IsDecimalText(amount)
    /\ pc' = "raised"
    /\ UNCHANGED <<line, pos, stack, groups, decimal, sign, has_space, parse_done, brk,
                   full_number, amount, idx, date_arg, date, description, result>>
    /\ UNCHANGED <<fileVars, debitVars>>

Next ==
    \/ ScanDigit
    \/ ScanComma
    \/ ScanMinus
    \/ ScanSpace
    \/ ScanOther
    \/ ScanEnd
    \/ AfterLoop
    \/ ParseDateDescription
    \/ ReturnRecord
    \/ RaiseInvalid

Spec == Init /\ [][Next]_vars

(***************************************************************************)
(* parse_payment_line as a function of the line: it raises when            *)
(* Decimal(amount) does, and returns one of the records the date parser's  *)
(* answer allows otherwise.                                                *)
(***************************************************************************)
PaymentLineRaises(ln) == ~IsDecimalText(ParseAmount(ln).amount)

PaymentLine(ln) ==
    LET pa     == ParseAmount(ln)
        prefix == Strip(SliceTo(ln, pa.idx))
    IN  {[date |-> d, description |-> DescriptionOf(prefix), amount |-> DecimalOf(pa.amount)] :
            d \in {None, DateOf(DateArgOf(prefix))}}

(***************************************************************************)
(* parse_creditcard_records: a generator over the lines of a file.         *)
(***************************************************************************)
NewLine == <<"\n">>

\* a blank line, a line of spaces, two payments, a line without an amount
FileLineKinds ==
    {NewLine,
     <<" ", " ">> \o NewLine,
     DateHead \o <<"a", " ", "-", "1", ",", "5">> \o NewLine,
     DateHead \o <<"b", " ", "1", "0", "0">> \o NewLine,
     DateHead \o <<"S", "a", "l", "d", "o">> \o NewLine}

Files == UNION {[1..n -> FileLineKinds] : n \in 0..MaxFileLines}

\* filter(lambda x: x.strip() != "", ...)
NotBlank(x) == Strip(x) # <<>>

InitFile ==
    /\ LineIdle /\ DebitIdle
    /\ file_lines \in Files
    /\ f = "unopened"
    /\ lines = None
    /\ line_no = 0
    /\ records = <<>>
    /\ gen = "created"

\* lines 87-88: the file is opened and read, the blank lines are left out
ReadLines ==
    /\ gen = "created"
    /\ f' = "open"
    /\ lines' = SelectSeq(file_lines, NotBlank)
    /\ gen' = "running"
    /\ UNCHANGED <<file_lines, line_no, records, lineVars, debitVars>>

\* lines 89-91: the next line is parsed and its record yielded
YieldRecord ==
    /\ gen = "running" /\ line_no < Len(lines)
    /\ ~PaymentLineRaises(lines[line_no + 1])
    /\ \E r \in PaymentLine(lines[line_no + 1]) : records' = Append(records, r)
    /\ line_no' = line_no + 1
    /\ UNCHANGED <<file_lines, f, lines, gen, lineVars, debitVars>>

\* line 90: parse_payment_line raises; the with block closes the file
LineRaises ==
    /\ gen = "running" /\ line_no < Len(lines)
    /\ PaymentLineRaises(lines[line_no + 1])
    /\ f' = "closed"
    /\ gen' = "raised"
    /\ UNCHANGED <<file_lines, lines, line_no, records, lineVars, debitVars>>

\* the loop is over; the with block closes the file
EndOfLines ==
    /\ gen = "running" /\ line_no = Len(lines)
    /\ f' = "closed"
    /\ gen' = "done"
    /\ UNCHANGED <<file_lines, lines, line_no, records, lineVars, debitVars>>

\* The consumer takes no more records.  The generator stays as it is: not
\* started, or suspended at the yield of line 91, inside the with block.
StopTaking ==
    /\ \/ gen = "created"
       \/ gen = "running" /\ line_no > 0
    /\ gen' = "stopped"
    /\ UNCHANGED <<file_lines, f, lines, line_no, records, lineVars, debitVars>>

\* The generator is closed (close(), or its finalisation): GeneratorExit is
\* raised at the yield, and the with block closes the file on the way out.
CloseGenerator ==
    /\ gen = "stopped"
    /\ f' = IF f = "open" THEN "closed" ELSE f
    /\ gen' = "closed"
    /\ UNCHANGED <<file_lines, lines, line_no, records, lineVars, debitVars>>

NextFile ==
    \/ ReadLines
    \/ YieldRecord
    \/ LineRaises
    \/ EndOfLines
    \/ StopTaking
    \/ CloseGenerator

SpecFile == InitFile /\ [][NextFile]_vars

(***************************************************************************)
(* parse_debitcard: a generator over the rows of a table.  The table's     *)
(* columns are "Beløp", "Tittel" and "Bokføringsdato" (Belop, Tittel,      *)
(* Bokforingsdato here); every cell is a text.                             *)
(***************************************************************************)
AmountTexts ==
    {<<"1", ",", "5">>, <<"-", "1", "0", ",", "0">>, <<",", "5">>, <<"a">>}

Titles == {<<"A">>, <<"B">>}

DateTexts == {<<"1", ".", "1", ".", "2", "4">>, <<"R">>}

Rows == [Belop : AmountTexts, Tittel : Titles, Bokforingsdato : DateTexts]

Tables == UNION {[1..n -> Rows] : n \in 0..MaxRows}

\* text.replace(",", ".")
ReplaceComma(text) == [i \in 1..Len(text) |-> IF text[i] = "," THEN "." ELSE text[i]]

\* dateparser.parse(text)
DateParse(text) == IF text \in parsable THEN DateOf(text) ELSE None

InitDebit ==
    /\ LineIdle /\ FileIdle
    /\ parsable \in SUBSET DateTexts
    /\ df \in Tables
    /\ row_no = 0
    /\ debit_records = <<>>
    /\ debit_gen = "running"

\* lines 102-108: the date of the row parses, the record is yielded
RowYields ==
    /\ debit_gen = "running" /\ row_no < Len(df)
    /\ LET row == df[row_no + 1]
       IN  /\ IsDecimalText(ReplaceComma(row.Belop))
           /\ DateParse(row.Bokforingsdato) # None
           /\ debit_records' = Append(debit_records,
                  [date |-> DateParse(row.Bokforingsdato),
                   amount |-> DecimalOf(ReplaceComma(row.Belop)),
                   description |-> row.Tittel])
    /\ row_no' = row_no + 1
    /\ UNCHANGED <<parsable, df, debit_gen, lineVars, fileVars>>

\* lines 102-106: the date of the row is None: continue
RowSkipped ==
    /\ debit_gen = "running" /\ row_no < Len(df)
    /\ LET row == df[row_no + 1]
       IN  /\ IsDecimalText(ReplaceComma(row.Belop))
           /\ DateParse(row.Bokforingsdato) = None
    /\ row_no' = row_no + 1
    /\ UNCHANGED <<parsable, df, debit_records, debit_gen, lineVars, fileVars>>

\* line 102: Decimal raises, before the date of the row is looked at
RowRaises ==
    /\ debit_gen = "running" /\ row_no < Len(df)
    /\ ~IsDecimalText(ReplaceComma(df[row_no + 1].Belop))
    /\ debit_gen' = "raised"
    /\ UNCHANGED <<parsable, df, row_no, debit_records, lineVars, fileVars>>

\* the loop is over
EndOfRows ==
    /\ debit_gen = "running" /\ row_no = Len(df)
    /\ debit_gen' = "done"
    /\ UNCHANGED <<parsable, df, row_no, debit_records, lineVars, fileVars>>

NextDebit ==
    \/ RowYields
    \/ RowSkipped
    \/ RowRaises
    \/ EndOfRows

SpecDebit == InitDebit /\ [][NextDebit]_vars

(***************************************************************************)
(* The shapes of amount text the properties speak of.  A is the text of    *)
(* an amount as it stands in a line: an optional "-", digit groups         *)
(* separated by spaces, and an optional "," with decimals.                 *)
(***************************************************************************)
SignOf(A) == IF A # <<>> /\ A[1] = "-" THEN <<"-">> ELSE <<>>

Unsigned(A) == IF SignOf(A) # <<>> THEN Tail(A) ELSE A

CommaCount(A) == Len(SplitOn(Unsigned(A), ",")) - 1

IntTextOf(A) == SplitOn(Unsigned(A), ",")[1]

DecTextOf(A) ==
    LET p == SplitOn(Unsigned(A), ",") IN IF Len(p) > 1 THEN p[2] ELSE <<>>

GroupsOf(A) == SplitOn(IntTextOf(A), " ")

\* every group has one to three digits
GroupsAtMost3(A) ==
    \A i \in DOMAIN GroupsOf(A) :
        AllDigits(GroupsOf(A)[i]) /\ Len(GroupsOf(A)[i]) \in 1..3

\* ... and every group but the leftmost has exactly three
GroupsExact(A) ==
    /\ GroupsAtMost3(A)
    /\ \A i \in 2..Len(GroupsOf(A)) : Len(GroupsOf(A)[i]) = 3

\* one comma, followed by at least one digit and nothing else
HasDecimals(A) ==
    CommaCount(A) = 1 /\ DecTextOf(A) # <<>> /\ AllDigits(DecTextOf(A))

\* the groups concatenated, "." in place of ",", the sign kept
ValueText(A) == SignOf(A) \o Flatten(GroupsOf(A)) \o <<".">> \o DecTextOf(A)

\* the last character of P that is not a space ("" when there is none)
LastNonSpace(P) ==
    IF \A i \in DOMAIN P : P[i] = " " THEN ""
    ELSE P[CHOOSE i \in DOMAIN P : P[i] # " " /\ \A j \in (i + 1)..Len(P) : P[j] = " "]

\* The amount A is set off from the prefix P: it starts with "-", or its
\* first group has one, two or more than three digits, or the last non-space
\* character of P is not a digit, a comma or a minus.
SetOff(P, A) ==
    \/ SignOf(A) # <<>>
    \/ Len(GroupsOf(A)[1]) \notin {0, 3}
    \/ LastNonSpace(P) \notin Digits \cup {",", "-"}

\* an unsigned run of more than three digits, not grouped
LongRun(A) ==
    /\ SignOf(A) = <<>>
    /\ AllDigits(IntTextOf(A))
    /\ Len(IntTextOf(A)) > 3

\* no comma, or one comma followed by digits
DecimalsOrNone(A) ==
    \/ CommaCount(A) = 0
    \/ HasDecimals(A)

\* the longest run of digits of s that starts at place p
RECURSIVE DigitRunAt(_, _)
DigitRunAt(s, p) ==
    IF p > Len(s) \/ ~IsDigit(s[p]) THEN <<>>
    ELSE <<s[p]>> \o DigitRunAt(s, p + 1)

\* line = PrefixBefore(k) + " " + SuffixAt(k), when line[k - 1] is a space
SuffixAt(k) == SubSeq(line, k, Len(line))

PrefixBefore(k) == SubSeq(line, 1, k - 2)

\* "," and digits, with no integer part
DecimalOnly(A) == IntTextOf(A) = <<>> /\ HasDecimals(A)

\* an amount as the lines of a statement carry it
AmountShape(A) ==
    /\ DecimalsOrNone(A)
    /\ GroupsExact(A) \/ LongRun(A) \/ DecimalOnly(A)

\* P starts with three non-empty tokens separated by single spaces
DatedPrefix(P) ==
    LET toks == SplitOn(P, " ")
    IN  /\ Len(toks) >= 3
        /\ \A i \in 1..3 : /\ toks[i] # <<>>
                           /\ \A j \in DOMAIN toks[i] : toks[i][j] \notin Whitespace

\* <day> <month> <year> of a dated prefix
DateTextOf(P) ==
    LET toks == SplitOn(P, " ")
    IN  toks[1] \o <<" ">> \o toks[2] \o <<" ">> \o toks[3]

\* the text after the third token of a dated prefix, trimmed
DescTextOf(P) == Strip(SubSeq(P, Len(DateTextOf(P)) + 1, Len(P)))

\* parse_amount has returned
AmountReturned == pc \in {"amount_done", "to_decimal", "returned", "raised"}

(***************************************************************************)
(* C1 as stated: for every line <prefix> <amount>, the amount being an     *)
(* optional "-", groups of at most 3 digits separated by single spaces,    *)
(* a "," and digits, parse_amount returns the value of that amount and     *)
(* line[idx:] is the amount text.  It fails: "1 0,1" gives 0.1.            *)
(***************************************************************************)
C1_AsStated ==
    AmountReturned =>
        \A k \in 2..Len(line) :
            LET A == SuffixAt(k)
            IN  (line[k - 1] = " " /\ HasDecimals(A) /\ GroupsAtMost3(A))
                    => (amount = ValueText(A) /\ SliceFrom(line, idx) = A)

(***************************************************************************)
(* C1 amended: the same, for amounts whose groups other than the leftmost  *)
(* have exactly 3 digits and that are set off from the prefix (SetOff).    *)
(***************************************************************************)
C1_ExactAmount ==
    AmountReturned =>
        \A k \in 2..Len(line) :
            LET A == SuffixAt(k)
            IN  (/\ line[k - 1] = " "
                 /\ HasDecimals(A)
                 /\ GroupsExact(A)
                 /\ SetOff(PrefixBefore(k), A))
                    => (amount = ValueText(A) /\ SliceFrom(line, idx) = A)

\* a line ending in an amount of two groups and decimals has been parsed
C1_Witness ==
    /\ pc = "amount_done"
    /\ \E k \in 2..Len(line) :
           /\ line[k - 1] = " "
           /\ HasDecimals(SuffixAt(k))
           /\ GroupsExact(SuffixAt(k))
           /\ SetOff(PrefixBefore(k), SuffixAt(k))
           /\ Len(GroupsOf(SuffixAt(k))) = 2
           /\ amount = ValueText(SuffixAt(k))

(***************************************************************************)
(* C2: idempotence of extraction: parse_amount(line[idx:]) returns the     *)
(* normalized value parse_amount(line) returned.  It fails where the       *)
(* rebuilt full_number is not in the line and idx is -1: "1 ,0" gives      *)
(* 1.0 with idx -1, and line[-1:] = "0" gives "0.".                        *)
(***************************************************************************)
C2_Idempotent ==
    AmountReturned => ParseAmount(SliceFrom(line, idx)).amount = amount

(***************************************************************************)
(* C3: when the backward scan meets a "-" while the accumulator holds 3    *)
(* or fewer digits (the only way the loop leaves at a "-"), the result is  *)
(* negative, the accumulated digits are the leftmost group, scanning ends  *)
(* at that "-", and line[idx:] starts with that "-".  The last part fails  *)
(* where full_number is not in the line: "-1 ,0" gives idx = -1.           *)
(***************************************************************************)
C3_MinusIsSign ==
    (AmountReturned /\ pos > 0 /\ Text[pos] = "-") =>
        /\ sign = <<"-">> /\ parse_done
        /\ Head(amount) = "-"
        /\ groups[Len(groups)] = DigitRunAt(Text, pos + 1)
        /\ Head(IntegerOf(Scan)) = "-"
        /\ Tail(IntegerOf(Scan)) = Flatten(Reverse(groups))
        /\ idx = LeadWs(line) + pos - 1
        /\ Head(SliceFrom(line, idx)) = "-"

(***************************************************************************)
(* C4: when the backward scan meets a space while the accumulator holds 1  *)
(* or 2 digits, those digits become the leftmost group and scanning ends;  *)
(* nothing to the left of that space is part of the amount (the text to    *)
(* its right alone gives the same value), and line[idx:] starts at that    *)
(* group.  The last part fails where full_number is not in the line:       *)
(* "a 1 ,0" gives idx = -1.                                                *)
(***************************************************************************)
C4_LastValidRun ==
    (AmountReturned /\ brk = "short") =>
        /\ Text[pos] = " " /\ parse_done
        /\ Len(groups[Len(groups)]) \in 1..2
        /\ groups[Len(groups)] = DigitRunAt(Text, pos + 1)
        /\ ParseAmount(SubSeq(Text, pos + 1, Len(Text))).amount = amount
        /\ idx = LeadWs(line) + pos

(***************************************************************************)
(* C5: no-separator run.  For a line that is, or ends after a space in,    *)
(* an unsigned run of more than 3 digits with or without "," and digits,   *)
(* the whole run is the one group of the result, the value is run.digits   *)
(* and line[idx:] is that amount text.                                     *)
(***************************************************************************)
C5_NoSeparatorRun ==
    AmountReturned =>
        \A k \in 1..Len(line) :
            LET A == SuffixAt(k)
            IN  (/\ k = 1 \/ line[k - 1] = " "
                 /\ LongRun(A)
                 /\ DecimalsOrNone(A))
                    => /\ groups = <<IntTextOf(A)>>
                       /\ amount = IntTextOf(A) \o <<".">> \o DecTextOf(A)
                       /\ SliceFrom(line, idx) = A

\* the scan met a space holding more than 3 digits, no space seen before,
\* on a line ending in <run>,<digits>
C5_Witness ==
    /\ pc = "amount_done"
    /\ brk = "long" /\ ~has_space
    /\ \E k \in 2..Len(line) :
           /\ line[k - 1] = " "
           /\ LongRun(SuffixAt(k))
           /\ HasDecimals(SuffixAt(k))
           /\ SliceFrom(line, idx) = SuffixAt(k)

LineDone == pc \in {"returned", "raised"}

C8_AsStated ==
    LineDone =>
        \A k \in 2..Len(line) :
            LET A == SuffixAt(k)
                P == PrefixBefore(k)
            IN  (/\ line[k - 1] = " "
                 /\ AmountShape(A)
                 /\ DatedPrefix(P))
                    => /\ pc = "returned"
                       /\ date_arg = DateTextOf(P)
                       /\ result.description = DescTextOf(P)
                       /\ result.amount = DecimalOf(ValueText(A))

(***************************************************************************)
(* C8 amended: the same, for an amount set off from the text before it     *)
(* (SetOff).                                                               *)
(***************************************************************************)
C8_SetOffAmount ==
    LineDone =>
        \A k \in 2..Len(line) :
            LET A == SuffixAt(k)
                P == PrefixBefore(k)
            IN  (/\ line[k - 1] = " "
                 /\ AmountShape(A)
                 /\ DatedPrefix(P)
                 /\ SetOff(P, A))
                    => /\ pc = "returned"
                       /\ date_arg = DateTextOf(P)
                       /\ result.description = DescTextOf(P)
                       /\ result.amount = DecimalOf(ValueText(A))

\* "1 m 2025 a -100" has been parsed: date text, description "a", -100
C8_Witness ==
    /\ pc = "returned"
    /\ line = DateHead \o <<"a", " ", "-", "1", "0", "0">>
    /\ date_arg = <<"1", " ", "m", " ", "2", "0", "2", "5">>
    /\ result.description = <<"a">>
    /\ result.amount = [neg |-> TRUE, int |-> <<"1", "0", "0">>, frac |-> <<>>]

(***************************************************************************)
(* C9: parse_creditcard_records yields exactly one record per non-blank    *)
(* line of the file, in file order, and none for a blank line: when the    *)
(* generator has ended it has ended normally, and its records are those of *)
(* the non-blank lines one by one.  It fails for a file with a non-blank   *)
(* line in which the scan finds no digit: Decimal(".") raises.             *)
(***************************************************************************)
C9_OneRecordPerLine ==
    gen \in {"done", "raised"} =>
        LET kept == SelectSeq(file_lines, NotBlank)
        IN  /\ gen = "done"
            /\ Len(records) = Len(kept)
            /\ \A i \in DOMAIN kept : records[i] \in PaymentLine(kept[i])

(***************************************************************************)
(* C10: in parse_debitcard every row whose date cannot be parsed is        *)
(* dropped without an error and the next row is taken; every row whose     *)
(* date parses yields one record, in row order, with the amount read after *)
(* "," is replaced by ".".  Stated for tables whose rows with a date carry *)
(* an amount text Decimal accepts.  It fails for a row with no date whose  *)
(* amount text is not a number: Decimal raises before the date is looked   *)
(* at.                                                                     *)
(***************************************************************************)
C10_DroppedSilently ==
    (/\ debit_gen \in {"done", "raised"}
     /\ \A i \in DOMAIN df :
            df[i].Bokforingsdato \in parsable => IsDecimalText(ReplaceComma(df[i].Belop)))
        => LET kept == SelectSeq(df, LAMBDA r : r.Bokforingsdato \in parsable)
           IN  /\ debit_gen = "done"
               /\ debit_records =
                      [i \in DOMAIN kept |->
                          [date |-> DateOf(kept[i].Bokforingsdato),
                           amount |-> DecimalOf(ReplaceComma(kept[i].Belop)),
                           description |-> kept[i].Tittel]]

\* s holds no digit
NoDigits(s) == \A i \in DOMAIN s : ~IsDigit(s[i])

(***************************************************************************)
(* C11: for a line that holds no digit parse_amount does not raise: every  *)
(* step of the scan has a next step until the function returns, and it     *)
(* returns a value with no integer digit and no decimal digit ("." or      *)
(* "-.") together with an offset into the line.                            *)
(***************************************************************************)
C11_NoDigitsNoRaise ==
    NoDigits(line) =>
        /\ pc \in {"scan", "after_loop"} => ENABLED Next
        /\ AmountReturned =>
              /\ Flatten(groups) = <<>> /\ decimal = <<>>
              /\ amount = sign \o <<".">>
              /\ idx \in 0..Len(line)

\* "a ,-" has been scanned: the "-" ended the scan with nothing held
C11_Witness ==
    /\ pc = "amount_done"
    /\ line = <<"a", " ", ",", "-">>
    /\ amount = <<"-", ".">>
    /\ idx = 3

(***************************************************************************)
(* C12: a line whose numeric text holds no digit is not rejected by the    *)
(* line pipeline: parse_payment_line returns a record that carries the     *)
(* amount with the empty integer part.  It fails: Decimal(".") and         *)
(* Decimal("-.") raise InvalidOperation, so no record is returned.         *)
(***************************************************************************)
C12_DegenerateRecord ==
    (LineDone /\ NoDigits(amount)) =>
        /\ pc = "returned"
        /\ result.description = description

C14_MinusEndsLongRun ==
    [][(pc = "scan" /\ pos > 0 /\ Text[pos] = "-" /\ Len(stack) > 3)
          => /\ pc' = "after_loop" /\ pos' = pos
             /\ sign' = <<>>
             /\ stack' = stack /\ ~parse_done']_vars

(***************************************************************************)
(* C15: only the first comma met in the backward scan sets the decimal     *)
(* fragment: a comma met when a comma on its right has been scanned leaves *)
(* decimal as it is.  It fails: every comma assigns decimal anew.          *)
(***************************************************************************)
C15_FirstCommaOnly ==
    [][(/\ pc = "scan" /\ pos > 0 /\ Text[pos] = ","
        /\ \E q \in (pos + 1)..Len(Text) : Text[q] = ",")
          => decimal' = decimal]_vars

RECURSIVE DigitRunAtEnd(_)
DigitRunAtEnd(P) ==
    IF P = <<>> \/ ~IsDigit(P[Len(P)]) THEN <<>>
    ELSE DigitRunAtEnd(SubSeq(P, 1, Len(P) - 1)) \o <<P[Len(P)]>>

\* P ends in a space and a run of more than 3 digits, the space not being
\* part of the whitespace strip() takes off the start of the line
EndsInLongRun(P) ==
    LET run == DigitRunAtEnd(P)
    IN  /\ Len(run) > 3
        /\ Len(P) - Len(run) > LeadWs(P)
        /\ P[Len(P) - Len(run)] = " "

\* an unsigned amount at whose left end the scan notes a space: it starts
\* with a group of 3 digits, or with the comma
SpaceGrouped(A) ==
    /\ SignOf(A) = <<>>
    /\ DecimalsOrNone(A)
    /\ \/ GroupsExact(A) /\ Len(GroupsOf(A)[1]) = 3
       \/ DecimalOnly(A)

C18_OffsetValid ==
    AmountReturned =>
        /\ idx \in 0..Len(line)
        /\ idx >= LeadWs(line) + pos - 1
        /\ SubSeq(SliceFrom(line, idx), 1, Len(full_number)) = full_number

(***************************************************************************)
(* C19 as stated: whenever the integer part of the result is built from    *)
(* two or more groups, every group other than the leftmost has exactly 3   *)
(* digits and the leftmost has between 1 and 3.  It fails for the          *)
(* leftmost group: "1100 100" gives the groups 1100 and 100, "a- 100" the  *)
(* groups "" and 100.                                                      *)
(***************************************************************************)
C19_AsStated ==
    (AmountReturned /\ Len(groups) >= 2) =>
        /\ \A i \in 1..(Len(groups) - 1) : Len(groups[i]) = 3
        /\ Len(groups[Len(groups)]) \in 1..3

(***************************************************************************)
(* C19 amended: every group other than the leftmost has exactly 3 digits;  *)
(* the leftmost has between 1 and 3 when the scan ended at a space or at a *)
(* "-" that stands directly before a digit.                                *)
(***************************************************************************)
C19_GroupSizes ==
    (AmountReturned /\ Len(groups) >= 2) =>
        /\ \A i \in 1..(Len(groups) - 1) : Len(groups[i]) = 3
        /\ (\/ brk \in {"short", "long"}
            \/ brk = "minus" /\ pos < Len(Text) /\ IsDigit(Text[pos + 1]))
              => Len(groups[Len(groups)]) \in 1..3

\* "1 m 2025 1 100 100" has been scanned: three groups, the scan ended at
\* the space before the "1"
C19_Witness ==
    /\ pc = "amount_done"
    /\ brk = "short"
    /\ groups = <<<<"1", "0", "0">>, <<"1", "0", "0">>, <<"1">>>>
    /\ amount = <<"1", "1", "0", "0", "1", "0", "0", ".">>

(***************************************************************************)
(* C20: a line whose first three tokens cannot be parsed as a date is      *)
(* neither dropped nor reported: parse_payment_line returns a record with  *)
(* a null date and the line's amount and description.  It fails for such   *)
(* a line when its amount text holds no digit: Decimal raises (C12).       *)
(***************************************************************************)
C20_NullDateRecord ==
    (LineDone /\ date = None) =>
        /\ pc = "returned"
        /\ result.date = None
        /\ result.description = description
        /\ result.amount = DecimalOf(amount)

\* ch is none of the characters the scan has a branch for
IsOther(ch) == ~IsDigit(ch) /\ ch \notin {",", "-", " "}

\* the place in s of its last character of no kind, 0 when it has none
LastOther(s) ==
    IF \A i \in DOMAIN s : ~IsOther(s[i]) THEN 0
    ELSE CHOOSE i \in DOMAIN s : IsOther(s[i]) /\ \A j \in (i + 1)..Len(s) : ~IsOther(s[j])

\* texts put in the place of what stands left of that character
LeftTexts ==
    {<<>>, <<"1">>, <<"1", "0", "0", " ">>, <<"-">>, <<"1", ",">>, <<"a", " ", "-", "1", " ">>}

(***************************************************************************)
(* C21: the backward scan (over line.strip()) stops at the first character *)
(* it meets that is not a digit, comma, minus or space: it never goes to   *)
(* the left of it, and when it ends there the digits held are flushed as   *)
(* the leftmost group.  Hence the value depends on the text from that      *)
(* character on alone: a line with the same text from that character on    *)
(* and any other text to its left yields the same normalized value.        *)
(***************************************************************************)
C21_StopsAtText ==
    (pc = "amount_done" /\ LastOther(Text) > 0) =>
        LET p   == LastOther(Text)
            suf == SubSeq(Text, p, Len(Text))
        IN  /\ pos >= p
            /\ brk = "other" =>
                  /\ pos = p /\ stack = <<>>
                  /\ (p < Len(Text) /\ IsDigit(Text[p + 1]))
                        => /\ groups # <<>>
                           /\ Head(groups[Len(groups)]) = Text[p + 1]
                           /\ Head(amount) = Text[p + 1]
            /\ \A left \in LeftTexts : ParseAmount(left \o suf).amount = amount

\* "1a10" has been scanned: the scan ended at the "a", and the value is 10.
C21_Witness ==
    /\ pc = "amount_done"
    /\ line = <<"1", "a", "1", "0">>
    /\ brk = "other" /\ pos = 2
    /\ amount = <<"1", "0", ".">>

(***************************************************************************)
(* C22: the result of parse_amount is negative only if a "-" stands        *)
(* immediately to the left of the amount's first digit or decimal comma: a *)
(* "-" that a space separates from the digits is never taken as the sign.  *)
(* It fails: a space met with 3 digits held, or with none, lets the scan   *)
(* go on, and the "-" behind it sets the sign: "a - 100" gives -100.       *)
(***************************************************************************)
C22_SignAdjacent ==
    (AmountReturned /\ sign = <<"-">> /\ ~NoDigits(amount)) =>
        /\ pos > 0 /\ Text[pos] = "-"
        /\ pos < Len(Text)
        /\ IsDigit(Text[pos + 1]) \/ Text[pos + 1] = ","

\* the place of the comma that set decimal: the leftmost comma the scan met
DecimalComma ==
    CHOOSE c \in (pos + 1)..Len(Text) :
        Text[c] = "," /\ \A q \in (pos + 1)..(c - 1) : Text[q] # ","

\* the groups the scan had confirmed when it came to place c
GroupsRightOf(c) ==
    LET right == SubSeq(Text, c + 1, Len(Text))
    IN  ScanFrom(right, Len(right), ScanInit).groups

(***************************************************************************)
(* C23: in every result of parse_amount the digits of the decimal fragment *)
(* stand to the right of every digit of the integer part: no group had     *)
(* been confirmed when the comma that set the decimal fragment was met.    *)
(* It fails: the comma branch does not look at the groups, and "1,1 100"   *)
(* gives 1100.1.                                                           *)
(***************************************************************************)
C23_DecimalRightmost ==
    (AmountReturned /\ decimal # <<>>) =>
        GroupsRightOf(DecimalComma) = <<>>

=============================================================================
